---- MODULE Spec2Model ----
(***************************************************************************)
(* Model of src/app.py: the Stock/ETF interval price calculator.           *)
(*                                                                         *)
(* One calculation is main(): the symbol typed by the user is upper-cased  *)
(* and stripped, validated, one HTTP GET is sent to the provider, the      *)
(* returned series is processed by process_data_for_intervals and the      *)
(* result is rendered.                                                     *)
(*                                                                         *)
(* Representation.  Instants are minutes since 2024-01-01 00:00 UTC (a     *)
(* Monday).  Prices are in cents (the source's dollars times 100), so      *)
(* "rounded to 2 decimals" is "an integer number of cents".  A value that  *)
(* Python leaves as None is the record None; a present value is Some(x).   *)
(***************************************************************************)
EXTENDS Integers, Sequences, FiniteSets, TLC

VARIABLES
    pc,                 \* position of main(): "idle", "validated", "fetched", "done"
    calculate_clicked,  \* st.button("Calculate Averages") of this run
    symbol,             \* the text input after .upper().strip()
    http_gets,          \* number of requests.get calls issued by this run
    response,           \* the provider's answer to the GET (None before it)
    raw_data,           \* what fetch_intraday_data returned
    end_date,           \* datetime.now(US/Eastern) read by process_data_for_intervals
    results_df,         \* what process_data_for_intervals returned
    messages,           \* st.error / st.warning / st.success / st.info calls, in order
    shown               \* widgets rendered: "table", "metrics", "download"

vars == <<pc, calculate_clicked, symbol, http_gets, response, raw_data,
          end_date, results_df, messages, shown>>

----------------------------------------------------------------------------
(* Bounds of the model *)

\* longest text typed into the symbol box
MaxSymLen == 6
\* largest number of bars in a provider series (general specification)
MaxBars == 2
\* last day (index from 2024-01-01) of the complete series of SpecLookback
HorizonDay == 22

----------------------------------------------------------------------------
(* Python values *)

None == [some |-> FALSE, v |-> <<>>]
Some(x) == [some |-> TRUE, v |-> x]

\* pd.to_numeric(..., errors='coerce') turns a malformed string into NaN
NaN == -1

MinutesPerDay == 1440

Range(s) == {s[i] : i \in DOMAIN s}

----------------------------------------------------------------------------
(* validate_symbol and the text input *)

\* characters the user may type: a letter, a digit, a blank
InputChars == {"a", "1", " "}

RawTexts == UNION {[1..n -> InputChars] : n \in 0..MaxSymLen}

\* str.upper on one character
UpperChar(c) == IF c = "a" THEN "A" ELSE c

Upper(s) == [i \in DOMAIN s |-> UpperChar(s[i])]

\* str.strip: drop leading and trailing whitespace
Strip(s) ==
    LET nonblank == {i \in DOMAIN s : s[i] # " "}
    IN  IF nonblank = {} THEN <<>>
        ELSE LET lo == CHOOSE i \in nonblank : \A j \in nonblank : i <= j
                 hi == CHOOSE i \in nonblank : \A j \in nonblank : j <= i
             IN  SubSeq(s, lo, hi)

\* str.isalpha: non-empty and every character a letter
IsAlpha(s) == Len(s) > 0 /\ \A i \in DOMAIN s : s[i] \in {"A", "a"}

MaxSymbolLength == 5

validate_symbol_len_only(sym) ==
    IF Len(sym) = 0 THEN FALSE
    ELSE 1 <= Len(sym) /\ Len(sym) <= MaxSymbolLength

validate_symbol(sym) ==
    IF Len(sym) = 0 THEN FALSE
    ELSE IsAlpha(sym) /\ 1 <= Len(sym) /\ Len(sym) <= MaxSymbolLength

----------------------------------------------------------------------------
(* Time: provider timestamps, US/Eastern, dates *)

\* minutes since the epoch of the civil time day d (0 = 2024-01-01), h:m
At(d, h, m) == d * MinutesPerDay + h * 60 + m

\* US/Eastern in 2024: EDT (UTC-4) from 2024-03-10 07:00 UTC to 2024-11-03 06:00 UTC,
\* EST (UTC-5) otherwise
UtcOffset(t) ==
    IF At(69, 7, 0) <= t /\ t < At(307, 6, 0) THEN 240 ELSE 300

\* index.tz_localize('UTC').tz_convert('US/Eastern'): the wall-clock minute count
\* of the instant t in US/Eastern
NoTzConvert(t) == t

ToEastern(t) == t - UtcOffset(t)

\* df.index.date
LocalDate(t) == ToEastern(t) \div MinutesPerDay

\* the clock time between_time compares, in minutes since local midnight
LocalClock(t) == ToEastern(t) % MinutesPerDay

\* datetime.weekday(): Monday is 0; day 0 of the model is a Monday
Weekday(d) == d % 7

DayNames == <<"Monday", "Tuesday", "Wednesday", "Thursday", "Friday",
              "Saturday", "Sunday">>

\* strftime('%A')
DayName(d) == DayNames[Weekday(d) + 1]

\* strftime('%Y-%m-%d') on a day of December 2023 .. February 2024,
\* as <<year, month, day>>
FormatDate(d) ==
    IF d < 0 THEN <<2023, 12, 32 + d>>
    ELSE IF d < 31 THEN <<2024, 1, d + 1>>
    ELSE <<2024, 2, d - 30>>

\* pd.to_datetime on such a string
ParseDate(s) ==
    IF s[1] = 2023 THEN s[3] - 32
    ELSE IF s[2] = 1 THEN s[3] - 1
    ELSE s[3] + 30

----------------------------------------------------------------------------
(* The provider's series: data[time_series_key] *)

\* keys of the series, "YYYY-MM-DD HH:MM:SS" strings, as <<day, hour, minute>>
\* with day 0 = 2024-01-01
Keys ==
    { <<1, 14, 0>>,     \* Tue 2024-01-02 14:00 UTC = Tue 09:00 Eastern
      <<1, 14, 35>>,    \* Tue 14:35 UTC = Tue 09:35 Eastern
      <<5, 3, 0>>,      \* Sat 03:00 UTC = Fri 22:00 Eastern
      <<5, 14, 10>>,    \* Sat 14:10 UTC = Sat 09:10 Eastern
      <<7, 2, 0>>,      \* Mon 02:00 UTC = Sun 21:00 Eastern
      <<7, 16, 0>>,     \* Mon 16:00 UTC = Mon 11:00 Eastern
      <<7, 21, 0>> }    \* Mon 21:00 UTC = Mon 16:00 Eastern

\* the four price strings of a bar: well-formed, all malformed, partly malformed
PriceStrings ==
    { <<"10.00", "12.00", "9.00", "11.00">>,
      <<"N/A", "N/A", "N/A", "N/A">>,
      <<"20.01", "N/A", "N/A", "N/A">> }

\* one entry of the series; the Volume field is carried by the source but never read
MkBar(k, p) ==
    [key |-> k, Open |-> p[1], High |-> p[2], Low |-> p[3], Close |-> p[4]]

Bars == {MkBar(k, p) : k \in Keys, p \in PriceStrings}

\* a JSON object has one entry per key; its entries keep the provider's order
Series(n) ==
    {s \in [1..n -> Bars] : \A i, j \in 1..n : i # j => s[i].key # s[j].key}

AllSeries == UNION {Series(n) : n \in 0..MaxBars}

\* the series with one bar at 09:30 Eastern (14:30 UTC) of every Monday to Friday
\* from 2024-01-01 to day HorizonDay
RECURSIVE CompleteSeriesUpTo(_)
CompleteSeriesUpTo(d) ==
    IF d < 0 THEN <<>>
    ELSE LET rest == CompleteSeriesUpTo(d - 1)
         IN  IF d % 7 < 5
             THEN Append(rest, MkBar(<<d, 14, 30>>, <<"10.00", "12.00", "9.00", "11.00">>))
             ELSE rest

CompleteSeries == CompleteSeriesUpTo(HorizonDay)

----------------------------------------------------------------------------
(* fetch_intraday_data *)

ErrorKey == "Error Message"
NoteKey == "Note"
InformationKey == "Information"
time_series_key == "Time Series (5min)"

BodyKeys == {ErrorKey, NoteKey, InformationKey, time_series_key}

\* A response: whether requests.get returned (transport), whether
\* raise_for_status passed (status), the keys of the JSON body and the series
\* under time_series_key.  Bodies that are not JSON objects are not modelled.
MkResponse(t, s, ks, ser) ==
    [transport |-> t, status |-> s, keys |-> ks, series |-> ser]

SampleSeries == <<MkBar(<<1, 14, 0>>, <<"10.00", "12.00", "9.00", "11.00">>)>>

\* every envelope with a sample series, and every series in a clean envelope
EnvelopeResponses ==
    {MkResponse(t, s, ks, IF time_series_key \in ks THEN SampleSeries ELSE <<>>) :
        t \in {"ok", "failed"}, s \in {"ok", "bad"}, ks \in SUBSET BodyKeys}

Responses ==
    EnvelopeResponses
    \cup {MkResponse("ok", "ok", {time_series_key}, ser) : ser \in AllSeries}

LookbackResponses ==
    {MkResponse("ok", "ok", {time_series_key}, CompleteSeries),
     MkResponse("ok", "ok", {NoteKey}, <<>>)}

Msg(level, text, sym) == [level |-> level, text |-> text, symbol |-> sym]

\* the outcome of fetch_intraday_data: the message it displays (if any) and
\* the value it returns
FetchOutcome(msg, ret) == [msg |-> msg, ret |-> ret]

fetch_intraday_data_series_first(sym, resp) ==
    IF resp.transport # "ok" \/ resp.status # "ok"
    THEN FetchOutcome(<<Msg("error", "Network error occurred", <<>>)>>, None)
    ELSE IF time_series_key \in resp.keys
    THEN FetchOutcome(<<>>, Some(resp.series))
    ELSE IF ErrorKey \in resp.keys
    THEN FetchOutcome(<<Msg("error", "API Error", <<>>)>>, None)
    ELSE IF NoteKey \in resp.keys
    THEN FetchOutcome(<<Msg("error", "API call frequency limit reached", <<>>)>>, None)
    ELSE IF InformationKey \in resp.keys
    THEN FetchOutcome(<<Msg("error", "API rate limit exceeded", <<>>)>>, None)
    ELSE FetchOutcome(<<Msg("error", "No intraday data found for symbol", sym)>>, None)

fetch_intraday_data(sym, resp) ==
    IF resp.transport # "ok" \/ resp.status # "ok"
    THEN FetchOutcome(<<Msg("error", "Network error occurred", <<>>)>>, None)
    ELSE IF ErrorKey \in resp.keys
    THEN FetchOutcome(<<Msg("error", "API Error", <<>>)>>, None)
    ELSE IF NoteKey \in resp.keys
    THEN FetchOutcome(<<Msg("error", "API call frequency limit reached", <<>>)>>, None)
    ELSE IF InformationKey \in resp.keys
    THEN FetchOutcome(<<Msg("error", "API rate limit exceeded", <<>>)>>, None)
    ELSE IF time_series_key \notin resp.keys
    THEN FetchOutcome(<<Msg("error", "No intraday data found for symbol", sym)>>, None)
    ELSE FetchOutcome(<<>>, Some(resp.series))

----------------------------------------------------------------------------
(* process_data_for_intervals *)

\* pd.to_numeric(col, errors='coerce') on the price strings the provider sends:
\* a decimal string becomes its value (here in cents), anything else NaN
ToNumeric(str) ==
    CASE str = "9.00" -> 900
      [] str = "10.00" -> 1000
      [] str = "11.00" -> 1100
      [] str = "12.00" -> 1200
      [] str = "20.01" -> 2001
      [] OTHER -> NaN

\* pd.to_datetime(index) then tz_localize('UTC'): the key read as a UTC instant
ToDatetime(k) == At(k[1], k[2], k[3])

price_columns == <<"Open", "High", "Low", "Close">>

\* the DataFrame after the conversions: one row per entry, in the entries' order
ToFrame(data) ==
    [i \in DOMAIN data |->
        [ts |-> ToDatetime(data[i].key),
         Open |-> ToNumeric(data[i].Open),
         High |-> ToNumeric(data[i].High),
         Low |-> ToNumeric(data[i].Low),
         Close |-> ToNumeric(data[i].Close)]]

LookbackDays == 10

\* start_date = end_date - timedelta(days=10)
StartDate(now) == now - LookbackDays * MinutesPerDay

\* df[(df.index >= start_date) & (df.index <= end_date)]
InWindow(t, now) == StartDate(now) <= t /\ t <= now

FilterWindow(df, now) == SelectSeq(df, LAMBDA r : InWindow(r.ts, now))

\* the three intervals: name, start and end clock time as <<hour, minute>>
intervals ==
    << [name |-> "Morning (9:00-9:35 AM)", start |-> <<9, 0>>, end |-> <<9, 35>>],
       [name |-> "Mid-Morning (11:00-11:30 AM)", start |-> <<11, 0>>, end |-> <<11, 30>>],
       [name |-> "Market Close (3:30-4:00 PM)", start |-> <<15, 30>>, end |-> <<16, 0>>] >>

IntervalNames == {intervals[i].name : i \in DOMAIN intervals}

ClockMinutes(hm) == hm[1] * 60 + hm[2]

\* DataFrame.between_time(start_time, end_time): both ends included
InIntervalOpenEnd(t, iv) ==
    /\ ClockMinutes(iv.start) <= LocalClock(t)
    /\ LocalClock(t) < ClockMinutes(iv.end)

InInterval(t, iv) ==
    /\ ClockMinutes(iv.start) <= LocalClock(t)
    /\ LocalClock(t) <= ClockMinutes(iv.end)

between_time(day_data, iv) == SelectSeq(day_data, LAMBDA r : InInterval(r.ts, iv))

\* the values of one column that are not NaN
Present(frame, col) ==
    SelectSeq([i \in DOMAIN frame |-> frame[i][col]], LAMBDA x : x # NaN)

RECURSIVE SumSeq(_)
SumSeq(xs) == IF xs = <<>> THEN 0 ELSE xs[1] + SumSeq(Tail(xs))

\* round(x, 2) of the fraction num/den of cents, ties to even
Round2(num, den) ==
    LET q == num \div den
        r == num % den
    IN  IF 2 * r < den THEN q
        ELSE IF 2 * r > den THEN q + 1
        ELSE IF q % 2 = 0 THEN q ELSE q + 1

Number(c) == [kind |-> "number", cents |-> c]
NaNCell == [kind |-> "nan", cents |-> 0]
NoData == [kind |-> "No Data", cents |-> 0]

\* round(interval_data[price_columns].mean().mean(), 2): DataFrame.mean gives
\* each column's mean over its values that are not NaN (NaN for a column
\* without any), Series.mean the mean of the column means that are not NaN
\* (NaN when there is none); round(NaN, 2) is NaN
AveragePrice(interval_data) ==
    LET n(col) == Len(Present(interval_data, col))
        sum(col) == SumSeq(Present(interval_data, col))
        cols == {price_columns[i] : i \in DOMAIN price_columns}
        used == {col \in cols : n(col) > 0}
        m(col) == IF n(col) = 0 THEN 1 ELSE n(col)
        prod == m("Open") * m("High") * m("Low") * m("Close")
        term(col) == IF n(col) = 0 THEN 0 ELSE sum(col) * (prod \div n(col))
        num == term("Open") + term("High") + term("Low") + term("Close")
    IN  IF used = {} THEN NaNCell
        ELSE Number(Round2(num, Cardinality(used) * prod))

\* the cell of one day and one interval
IntervalCell(day_data, iv) ==
    LET interval_data == between_time(day_data, iv)
    IN  IF interval_data # <<>> THEN AveragePrice(interval_data) ELSE NoData

\* if pd.to_datetime(date).weekday() >= 5: continue
SkipsSundayOnly(date) == Weekday(date) > 5

SkipsDay(date) == Weekday(date) >= 5

\* the row of one date of the grouped frame
DayRow(date, day_data) ==
    [Date |-> FormatDate(date),
     Day |-> DayName(date),
     cells |-> [nm \in IntervalNames |->
                  LET iv == CHOOSE x \in Range(intervals) : x.name = nm
                  IN  IntervalCell(day_data, iv)]]

\* df.groupby('Date') yields its groups in ascending order of the key
RECURSIVE Ascending(_)
Ascending(S) ==
    IF S = {} THEN <<>>
    ELSE LET lo == CHOOSE x \in S : \A y \in S : x <= y
         IN  <<lo>> \o Ascending(S \ {lo})

GroupKeys(df) == Ascending({LocalDate(df[i].ts) : i \in DOMAIN df})

DayData(df, date) == SelectSeq(df, LAMBDA r : LocalDate(r.ts) = date)

\* the loop over the groups: results, in the order of the appends
RECURSIVE BuildResults(_, _)
BuildResults(df, dates) ==
    IF dates = <<>> THEN <<>>
    ELSE LET date == Head(dates)
             rest == BuildResults(df, Tail(dates))
         IN  IF SkipsDay(date) THEN rest
             ELSE <<DayRow(date, DayData(df, date))>> \o rest

\* results_df.sort_values('Date', ascending=False) on the re-parsed dates
RECURSIVE SortAscending(_)
SortAscending(rows) ==
    IF rows = <<>> THEN <<>>
    ELSE LET i == CHOOSE k \in DOMAIN rows :
                    \A j \in DOMAIN rows : ParseDate(rows[k].Date) <= ParseDate(rows[j].Date)
         IN  <<rows[i]>> \o
             SortAscending([k \in 1..(Len(rows) - 1) |-> IF k < i THEN rows[k] ELSE rows[k + 1]])

RECURSIVE SortDescending(_)
SortDescending(rows) ==
    IF rows = <<>> THEN <<>>
    ELSE LET i == CHOOSE k \in DOMAIN rows :
                    \A j \in DOMAIN rows : ParseDate(rows[k].Date) >= ParseDate(rows[j].Date)
         IN  <<rows[i]>> \o
             SortDescending([k \in 1..(Len(rows) - 1) |-> IF k < i THEN rows[k] ELSE rows[k + 1]])

\* the outcome of process_data_for_intervals: the warning it displays (if any)
\* and the value it returns (None, or the rows of results_df)
ProcessOutcome(msg, ret) == [msg |-> msg, ret |-> ret]

process_data_for_intervals(data, sym, now) ==
    IF data = <<>> THEN ProcessOutcome(<<>>, None)
    ELSE LET df == FilterWindow(ToFrame(data), now)
         IN  IF df = <<>>
             THEN ProcessOutcome(
                      <<Msg("warning", "No data available for the past 7 days.", <<>>)>>,
                      None)
             ELSE ProcessOutcome(<<>>,
                      Some(SortDescending(BuildResults(df, GroupKeys(df)))))

----------------------------------------------------------------------------
(* main *)

\* values of datetime.now(), as instants
NowCandidates ==
    { At(7, 10, 0),     \* Mon 2024-01-08 10:00 UTC: the bars of Monday's session are ahead
      At(8, 12, 0),     \* Tue 2024-01-09 12:00 UTC: every key of Keys is in the window
      At(11, 14, 35),   \* Fri 2024-01-12 14:35 UTC: the window starts at Tue 14:35 UTC
      At(19, 0, 0) }    \* Sat 2024-01-20 00:00 UTC: every key of Keys is too old

\* every hour of the week before day HorizonDay
LookbackNows == {At(d, h, 0) : d \in (HorizonDay - 8)..(HorizonDay - 1), h \in 0..23}

\* the texts typed in SpecLookback
LookbackTexts == {<<"a", "a", "a">>, <<"a", "1">>}

\* Python truthiness of the value fetch_intraday_data returned (a dict or None)
Truthy(x) == x.some /\ x.v # <<>>

Init ==
    /\ pc = "idle"
    /\ calculate_clicked = FALSE
    /\ symbol = <<>>
    /\ http_gets = 0
    /\ response = None
    /\ raw_data = None
    /\ end_date = 0
    /\ results_df = None
    /\ messages = <<>>
    /\ shown = {}

\* a run of the script without a click: the instructions are shown
NoClick(texts) ==
    /\ pc = "idle"
    /\ \E text \in texts : symbol' = Strip(Upper(text))
    /\ calculate_clicked' = FALSE
    /\ messages' = Append(messages, Msg("info", "Enter a stock or ETF symbol", <<>>))
    /\ pc' = "done"
    /\ UNCHANGED <<http_gets, response, raw_data, end_date, results_df, shown>>

\* a run of the script with a click: the symbol is validated
Click(texts) ==
    /\ pc = "idle"
    /\ \E text \in texts : symbol' = Strip(Upper(text))
    /\ calculate_clicked' = TRUE
    /\ IF ~validate_symbol(symbol')
       THEN /\ messages' = Append(messages,
                               Msg("error", "Please enter a valid stock/ETF symbol", <<>>))
            /\ pc' = "done"
       ELSE /\ messages' = messages
            /\ pc' = "validated"
    /\ UNCHANGED <<http_gets, response, raw_data, end_date, results_df, shown>>

\* raw_data = fetch_intraday_data(symbol): one requests.get and its classification
Fetch(resps) ==
    /\ pc = "validated"
    /\ \E resp \in resps :
         LET out == fetch_intraday_data(symbol, resp)
         IN  /\ response' = Some(resp)
             /\ raw_data' = out.ret
             /\ messages' = messages \o out.msg
    /\ http_gets' = http_gets + 1
    /\ pc' = "fetched"
    /\ UNCHANGED <<calculate_clicked, symbol, end_date, results_df, shown>>

\* if raw_data: process_data_for_intervals, then the table, the metrics and the
\* download button, or the warning of the else branch
ProcessAndRender(nows) ==
    /\ pc = "fetched"
    /\ IF Truthy(raw_data)
       THEN \E now \in nows :
              LET out == process_data_for_intervals(raw_data.v, symbol, now)
              IN  /\ end_date' = now
                  /\ results_df' = out.ret
                  /\ IF out.ret.some /\ out.ret.v # <<>>
                     THEN /\ messages' = messages \o out.msg \o
                               <<Msg("success", "Successfully calculated interval averages", symbol)>>
                          /\ shown' = {"table", "metrics", "download"}
                     ELSE /\ messages' = messages \o out.msg \o
                               <<Msg("warning", "No trading data available", <<>>)>>
                          /\ shown' = shown
       ELSE UNCHANGED <<end_date, results_df, messages, shown>>
    /\ pc' = "done"
    /\ UNCHANGED <<calculate_clicked, symbol, http_gets, response, raw_data>>

Next ==
    \/ NoClick(RawTexts)
    \/ Click(RawTexts)
    \/ Fetch(Responses)
    \/ ProcessAndRender(NowCandidates)

Spec == Init /\ [][Next]_vars

NextLookback ==
    \/ NoClick(LookbackTexts)
    \/ Click(LookbackTexts)
    \/ Fetch(LookbackResponses)
    \/ ProcessAndRender(LookbackNows)

SpecLookback == Init /\ [][NextLookback]_vars

----------------------------------------------------------------------------
(* Properties *)

\* a calculation that returned a table from process_data_for_intervals
Finished == pc = "done" /\ results_df.some

Rows == results_df.v

\* the bars of the fetched series that lie in the lookback window
WindowFrame == FilterWindow(ToFrame(raw_data.v), end_date)

\* the bars of the window on the row's date whose clock time is in the interval
Matching(row, iv) ==
    SelectSeq(WindowFrame,
              LAMBDA r : LocalDate(r.ts) = ParseDate(row.Date) /\ InInterval(r.ts, iv))

\* the pooled list of the Open, High, Low and Close values that are present
RECURSIVE Pool(_)
Pool(frame) ==
    IF frame = <<>> THEN <<>>
    ELSE SelectSeq(<<frame[1].Open, frame[1].High, frame[1].Low, frame[1].Close>>,
                   LAMBDA x : x # NaN) \o Pool(Tail(frame))

Abs(x) == IF x < 0 THEN -x ELSE x

\* c cents is sum/count rounded to the nearest cent
IsRounded(c, sum, count) == 2 * Abs(c * count - sum) <= count

\* C1: every cell of an interval with matching bars is the mean of the pooled
\* present Open, High, Low and Close values of those bars, rounded to 2 decimals
C1_PooledMean ==
    Finished =>
        \A i \in DOMAIN Rows : \A k \in DOMAIN intervals :
            LET pool == Pool(Matching(Rows[i], intervals[k]))
                cell == Rows[i].cells[intervals[k].name]
            IN  pool # <<>> =>
                    /\ cell.kind = "number"
                    /\ IsRounded(cell.cents, SumSeq(pool), Len(pool))

\* C7: every cell is a number rounded to 2 decimals or the "No Data" marker
C7_CellsNumberOrNoData ==
    Finished =>
        \A i \in DOMAIN Rows : \A nm \in IntervalNames :
            Rows[i].cells[nm].kind \in {"number", "No Data"}

\* C8: a triggered calculation that shows no table shows an error or a warning,
\* and then no table, metric or download either
C8_FailureIsReported ==
    (pc = "done" /\ calculate_clicked /\ "table" \notin shown) =>
        /\ \E i \in DOMAIN messages : messages[i].level \in {"error", "warning"}
        /\ shown = {}

\* the series has a bar in the trading hours (09:30 to 16:00 Eastern) of every
\* Monday to Friday whose session ended before now
BarInEverySession ==
    /\ raw_data.some
    /\ \A d \in 0..HorizonDay :
         (d % 7 < 5 /\ At(d, 21, 0) <= end_date) =>
             \E i \in DOMAIN raw_data.v :
                 LET t == ToDatetime(raw_data.v[i].key)
                 IN  At(d, 14, 30) <= t /\ t <= At(d, 21, 0)

\* C9: with a bar in every past session, the 10-day window leaves at least 7 rows
C9_SevenTradingDays ==
    (pc = "done" /\ Truthy(raw_data) /\ BarInEverySession) =>
        results_df.some /\ Len(Rows) >= 7


\* the response classified by the GET of this run
Resp == response.v

TransportFailed == Resp.transport # "ok" \/ Resp.status # "ok"

\* the single message on screen after a failed fetch has this text
FetchFailedWith(texts) ==
    /\ raw_data = None
    /\ Len(messages) = 1
    /\ messages[1].level = "error"
    /\ messages[1].text \in texts

\* C2: the response is classified by the first matching rule: network failure,
\* API error, rate limit, no data (citing the symbol), success; every failure
\* returns None and only the success returns the series
C2_FetchClassification ==
    pc = "fetched" =>
        /\ TransportFailed => FetchFailedWith({"Network error occurred"})
        /\ (~TransportFailed /\ ErrorKey \in Resp.keys) => FetchFailedWith({"API Error"})
        /\ (~TransportFailed /\ ErrorKey \notin Resp.keys
              /\ (NoteKey \in Resp.keys \/ InformationKey \in Resp.keys)) =>
               FetchFailedWith({"API call frequency limit reached",
                                "API rate limit exceeded"})
        /\ (~TransportFailed /\ Resp.keys = {}) =>
               /\ FetchFailedWith({"No intraday data found for symbol"})
               /\ messages[1].symbol = symbol
        /\ (~TransportFailed /\ Resp.keys = {time_series_key}) =>
               /\ raw_data = Some(Resp.series)
               /\ messages = <<>>

\* a body with an error field and a time series, classified as the API error
C2_Witness ==
    /\ pc = "fetched"
    /\ ~TransportFailed
    /\ {ErrorKey, time_series_key} \subseteq Resp.keys
    /\ Resp.series # <<>>
    /\ raw_data = None

\* alphabetic and 1 to 5 characters
ValidSymbol ==
    /\ Len(symbol) \in 1..5
    /\ \A i \in DOMAIN symbol : symbol[i] = "A"

C3_NoWeekendRows ==
    Finished =>
        \A i \in DOMAIN Rows :
            /\ ParseDate(Rows[i].Date) % 7 < 5
            /\ Rows[i].Day \notin {"Saturday", "Sunday"}

\* a table computed from a window that holds a Saturday bar
C3_Witness ==
    /\ Finished
    /\ Rows # <<>>
    /\ \E i \in DOMAIN WindowFrame : LocalDate(WindowFrame[i].ts) % 7 = 5


\* the intervals' bounds in minutes after local midnight: 09:00-09:35,
\* 11:00-11:30 and 15:30-16:00, both ends included
ClockBounds ==
    [nm \in IntervalNames |->
        CASE nm = "Morning (9:00-9:35 AM)" -> <<540, 575>>
          [] nm = "Mid-Morning (11:00-11:30 AM)" -> <<660, 690>>
          [] OTHER -> <<930, 960>>]

\* C4: a cell is the "No Data" marker exactly when no bar of the row's day has
\* its local clock time within the interval, ends included; it is then no number
C4_NoDataIffNoBar ==
    Finished =>
        LET frame == WindowFrame
        IN  \A i \in DOMAIN Rows : \A nm \in IntervalNames :
                LET hit == \E b \in DOMAIN frame :
                               /\ LocalDate(frame[b].ts) = ParseDate(Rows[i].Date)
                               /\ ClockBounds[nm][1] <= LocalClock(frame[b].ts)
                               /\ LocalClock(frame[b].ts) <= ClockBounds[nm][2]
                    cell == Rows[i].cells[nm]
                IN  /\ ~hit => (cell = NoData /\ cell.kind # "number")
                    /\ hit => cell # NoData

\* a day whose only bar is the one at 09:35 Eastern: Morning is a number, the
\* other two intervals are "No Data"
C4_Witness ==
    /\ Finished
    /\ Len(raw_data.v) = 1
    /\ raw_data.v[1].key = <<1, 14, 35>>
    /\ Len(Rows) = 1
    /\ Rows[1].cells["Morning (9:00-9:35 AM)"].kind = "number"
    /\ Rows[1].cells["Mid-Morning (11:00-11:30 AM)"] = NoData
    /\ Rows[1].cells["Market Close (3:30-4:00 PM)"] = NoData

\* the Eastern calendar day and clock minute of a UTC instant in January 2024
\* (Eastern Standard Time, five hours behind UTC)
EasternDay(t) == (t - 300) \div 1440
EasternMinute(t) == (t - 300) % 1440

\* the UTC instants of the fetched bars that lie in the window
WindowInstants ==
    {t \in {ToDatetime(raw_data.v[i].key) : i \in DOMAIN raw_data.v} :
        end_date - 10 * 1440 <= t /\ t <= end_date}

RowDates == {Rows[i].Date : i \in DOMAIN Rows}

\* C6: date, weekday and clock time of a bar are those of its Eastern local
\* time: a bar gets a row exactly when its Eastern date is no weekend day, the
\* row carries the Eastern date, and the bar counts for the intervals that hold
\* its Eastern clock time
C6_EasternBucketing ==
    Finished =>
        LET dates == RowDates
            instants == WindowInstants
        IN  /\ \A t \in instants :
                  IF EasternDay(t) % 7 >= 5
                  THEN FormatDate(EasternDay(t)) \notin dates
                  ELSE \E i \in DOMAIN Rows :
                          /\ Rows[i].Date = FormatDate(EasternDay(t))
                          /\ Rows[i].Day = DayNames[(EasternDay(t) % 7) + 1]
                          /\ \A nm \in IntervalNames :
                                (ClockBounds[nm][1] <= EasternMinute(t)
                                   /\ EasternMinute(t) <= ClockBounds[nm][2])
                                => Rows[i].cells[nm] # NoData
            /\ \A i \in DOMAIN Rows :
                  \E t \in instants : Rows[i].Date = FormatDate(EasternDay(t))

\* the bar of 2024-01-02 14:00 UTC gives the Morning cell of Tuesday 2024-01-02,
\* and the bar of Monday 02:00 UTC (Sunday 21:00 Eastern) gives no row
C6_Witness ==
    /\ Finished
    /\ {raw_data.v[i].key : i \in DOMAIN raw_data.v} = {<<1, 14, 0>>, <<7, 2, 0>>}
    /\ WindowInstants = {At(1, 14, 0), At(7, 2, 0)}
    /\ Len(Rows) = 1
    /\ Rows[1].Date = <<2024, 1, 2>>
    /\ Rows[1].Day = "Tuesday"
    /\ Rows[1].cells["Morning (9:00-9:35 AM)"].kind = "number"

\* the rearrangements of a series
Reorderings(s) ==
    {[i \in DOMAIN s |-> s[f[i]]] :
        f \in {g \in [DOMAIN s -> DOMAIN s] : \A a, b \in DOMAIN s : a # b => g[a] # g[b]}}

\* C10: one row per date that is no weekend day and has a bar in the window,
\* the rows in strictly descending order of date, whatever the order of the bars
C10_OneRowPerDayDescending ==
    Finished =>
        LET dates == RowDates
            instants == WindowInstants
        IN  /\ \A i, j \in DOMAIN Rows :
                  i < j => ParseDate(Rows[i].Date) > ParseDate(Rows[j].Date)
            /\ dates = {FormatDate(LocalDate(t)) : t \in {u \in instants : LocalDate(u) % 7 < 5}}
            /\ Len(Rows) = Cardinality(dates)
            /\ \A s \in Reorderings(raw_data.v) :
                  process_data_for_intervals(s, symbol, end_date).ret = results_df

\* two trading days fetched oldest first, returned newest first
C10_Witness ==
    /\ Finished
    /\ Len(raw_data.v) = 2
    /\ ToDatetime(raw_data.v[1].key) < ToDatetime(raw_data.v[2].key)
    /\ Len(Rows) = 2
    /\ Rows[1].Date = FormatDate(LocalDate(ToDatetime(raw_data.v[2].key)))
    /\ Rows[2].Date = FormatDate(LocalDate(ToDatetime(raw_data.v[1].key)))

====
